---- MODULE Spec2Model ----
(***************************************************************************)
(* A model of mcrouter/tools/mcpiper/MessagePrinter.cpp: the session       *)
(* counter (countStats), the raw echo path (printRawMessage), the endpoint *)
(* filter (matchAddress), the connection and header formatters and the     *)
(* pattern matcher (matchAll).                                             *)
(*                                                                         *)
(* Strings are sequences of one-character strings.  The members declared   *)
(* in MessagePrinter.h (options_, filter_, printedMessages_,               *)
(* afterMatchCount_, targetOut_) keep their names.                         *)
(***************************************************************************)
EXTENDS Integers, Sequences, FiniteSets

\* ------------------------------------------------------------ bounds
MaxBound == 3      \* largest options_.maxMessages tried
MaxAfter == 2      \* largest options_.numAfterMatch tried
MaxCalls == 5      \* countStats calls per session
MaxIovs == 2       \* largest iovsCount tried
MaxRawCalls == 2   \* printRawMessage calls per session
NumIPs == 2        \* distinct IP addresses
NumPorts == 2      \* distinct (non-zero) ports
MaxKeyLen == 2     \* longest key
MaxTextLen == 3    \* longest text given to matchAll
MaxAlts == 2       \* alternatives in a pattern
MaxAltLen == 1     \* longest literal alternative

VARIABLES
  \* ---- the printer (Spec)
  options_,          \* [maxMessages, numAfterMatch, hasStopFn, disableColor]
  ndebug,            \* whether the build defines NDEBUG (assert compiled out)
  printedMessages_,
  afterMatchCount_,
  targetOut_,        \* the output sink: [data, writes, flushes, colorOutput]
  status,            \* "running", or "aborted" once an assert has failed
  stopCalls,         \* history: invocations of options_.stopRunningFn
  thrown,            \* history: std::bad_function_call exceptions raised
  nCalls,            \* history: invocations of countStats
  sinceStart,        \* history: countStats calls since the counter was started (-1: never)
  rawCalls,          \* history: invocations of printRawMessage
  lastRaw,           \* history: the arguments of the latest printRawMessage
  \* ---- the pure functions (SpecMatchAddress, SpecConn, SpecHeader, SpecMatchAll)
  filter_,           \* [host, port]
  from, to, protocol,
  op, result, key,
  text, pattern,
  it,                \* the cregex_token_iterator: [atEnd, first, second]
  matches,           \* matchAll's result vector
  ret,               \* the value returned by the function under test
  pc

printerVars == <<options_, ndebug, printedMessages_, afterMatchCount_, targetOut_,
                 status, stopCalls, thrown, nCalls, sinceStart, rawCalls, lastRaw>>
fnVars == <<filter_, from, to, protocol, op, result, key, text, pattern, it,
            matches, ret, pc>>
vars == <<printerVars, fnVars>>

\* ------------------------------------------------------------ helpers
NoValue == "none"

RECURSIVE Concat(_)
Concat(ss) == IF ss = <<>> THEN <<>> ELSE Head(ss) \o Concat(Tail(ss))

SeqsUpTo(S, n) == UNION {[1..k -> S] : k \in 0..n}

\* ------------------------------------------------------------ printer
\* printRawMessage's arguments: iovsBegin is NULL or points at the iovsCount
\* buffers bufs.
NULL == "nullptr"
Bufs == {<<>>, <<"a">>}
RawInputs == {[iovsBegin |-> NULL, bufs |-> <<>>]}
             \cup {[iovsBegin |-> "valid", bufs |-> b] : b \in SeqsUpTo(Bufs, MaxIovs)}

OptionSet == [maxMessages: 0..MaxBound, numAfterMatch: 0..MaxAfter,
              hasStopFn: BOOLEAN, disableColor: BOOLEAN]

\* The state of the function harness while the printer runs.
IdleFn ==
  /\ filter_ = NoValue /\ from = NoValue /\ to = NoValue /\ protocol = NoValue
  /\ op = NoValue /\ result = NoValue /\ key = NoValue
  /\ text = NoValue /\ pattern = NoValue /\ it = NoValue /\ matches = NoValue
  /\ ret = NoValue /\ pc = "idle"

\* The constructor: it stores the options and switches colour off on request;
\* it checks nothing.  The counters start at their in-class initialisers.
Init ==
  /\ options_ \in OptionSet
  /\ ndebug \in BOOLEAN
  /\ printedMessages_ = 0
  /\ afterMatchCount_ = 0
  /\ targetOut_ = [data |-> <<>>, writes |-> 0, flushes |-> 0,
                   colorOutput |-> ~options_.disableColor]
  /\ status = "running"
  /\ stopCalls = 0 /\ thrown = 0 /\ nCalls = 0 /\ sinceStart = -1
  /\ rawCalls = 0 /\ lastRaw = [null |-> TRUE, count |-> 0]
  /\ IdleFn

\* if (options_.maxMessages > 0 && printedMessages_ >= options_.maxMessages)
StopConditionStrict(maxMessages, printed) == maxMessages > 0 /\ printed > maxMessages
StopConditionLatched(maxMessages, printed) == maxMessages > 0 /\ printed = maxMessages
StopCondition(maxMessages, printed) == maxMessages > 0 /\ printed >= maxMessages

\* assert(options_.stopRunningFn): whether a stop callback is registered.
StopFnAssumed(opts) == TRUE
StopFnRegistered(opts) == opts.hasStopFn

\* if (options_.numAfterMatch > 0)
DecrementConditionNever(opts, counter) == FALSE
DecrementCondition(opts, counter) == opts.numAfterMatch > 0

\* countStats(): the increment, the stop signal, the after-match decrement.
\* With no stop callback at the bound, assert aborts; with NDEBUG the call of
\* the empty std::function throws std::bad_function_call and the rest of the
\* body is skipped.
CountStatsBody ==
  LET printed == printedMessages_ + 1
      decremented == IF DecrementCondition(options_, afterMatchCount_)
                       THEN afterMatchCount_ - 1 ELSE afterMatchCount_
  IN /\ printedMessages_' = printed
     /\ nCalls' = nCalls + 1
     /\ sinceStart' = IF sinceStart >= 0 THEN sinceStart + 1 ELSE sinceStart
     /\ IF StopCondition(options_.maxMessages, printed)
          THEN IF StopFnRegistered(options_)
                 THEN /\ stopCalls' = stopCalls + 1
                      /\ afterMatchCount_' = decremented
                      /\ UNCHANGED <<status, thrown>>
                 ELSE /\ IF ndebug
                           THEN thrown' = thrown + 1 /\ UNCHANGED status
                           ELSE status' = "aborted" /\ UNCHANGED thrown
                      /\ UNCHANGED <<stopCalls, afterMatchCount_>>
          ELSE /\ afterMatchCount_' = decremented
               /\ UNCHANGED <<stopCalls, status, thrown>>

\* countStats() called by the formatted path once a message has been emitted.
CountStats ==
  /\ status = "running"
  /\ nCalls < MaxCalls
  /\ CountStatsBody
  /\ UNCHANGED <<options_, ndebug, targetOut_, rawCalls, lastRaw, fnVars>>

\* if (iovsBegin == nullptr) return;
RawIsNoopOrEmpty(iovs) == iovs.iovsBegin = NULL \/ iovs.bufs = <<>>
RawIsNoop(iovs) == iovs.iovsBegin = NULL

\* printRawMessage(iovsBegin, iovsCount): iovs is NULL or the iovsCount buffers.
PrintRawMessage ==
  /\ status = "running"
  /\ nCalls < MaxCalls
  /\ rawCalls < MaxRawCalls
  /\ \E iovs \in RawInputs :
       /\ rawCalls' = rawCalls + 1
       /\ lastRaw' = [null |-> iovs.iovsBegin = NULL, count |-> Len(iovs.bufs)]
       /\ IF RawIsNoop(iovs)
            THEN UNCHANGED <<printedMessages_, afterMatchCount_, targetOut_, status,
                             stopCalls, thrown, nCalls, sinceStart>>
            ELSE /\ targetOut_' = [targetOut_ EXCEPT
                                     !.data = @ \o Concat(iovs.bufs),
                                     !.writes = @ + 1,
                                     !.flushes = @ + 1]
                 /\ CountStatsBody
  /\ UNCHANGED <<options_, ndebug, fnVars>>

\* A message matched: the printer starts printing the next numAfterMatch
\* messages (the counter is set by the message template in MessagePrinter.h).
StartAfterMatch ==
  /\ status = "running"
  /\ nCalls < MaxCalls
  /\ afterMatchCount_' = options_.numAfterMatch
  /\ sinceStart' = 0
  /\ UNCHANGED <<options_, ndebug, printedMessages_, targetOut_, status, stopCalls,
                 thrown, nCalls, rawCalls, lastRaw, fnVars>>

Next == CountStats \/ PrintRawMessage \/ StartAfterMatch

Spec == Init /\ [][Next]_vars

\* ------------------------------------------------------------ session counter claims
\* A countStats call that returned normally (no failed assert, no exception).
ReturnedNormally == thrown' = thrown /\ status' = "running"

\* C1: with a bound maxMessages > 0 and a stop callback registered, the callback
\* has not been invoked during the first maxMessages-1 countStats calls of a
\* fresh printer and has been invoked exactly once after the maxMessages-th.
C1_StopOnceAtBound ==
  (options_.maxMessages > 0 /\ options_.hasStopFn) =>
     /\ nCalls < options_.maxMessages => stopCalls = 0
     /\ nCalls = options_.maxMessages => stopCalls = 1

C1_Witness ==
  /\ options_.maxMessages > 1 /\ options_.hasStopFn
  /\ nCalls = options_.maxMessages /\ stopCalls = 1

\* C2 (as claimed): printRawMessage leaves the sink and the printed-message
\* count alone when it is given the null pointer or zero buffers.
C2_RawNoopNullOrEmpty ==
  [][(rawCalls' # rawCalls /\ (lastRaw'.null \/ lastRaw'.count = 0))
       => UNCHANGED <<targetOut_, printedMessages_>>]_vars

\* C2 (amended): printRawMessage is a no-op exactly when it is given the null
\* pointer; given a valid pointer, zero buffers included, it writes once (the
\* empty string for zero buffers), flushes once and counts one message.
C2_RawNoopOnlyNull ==
  [][rawCalls' # rawCalls =>
       IF lastRaw'.null
         THEN UNCHANGED <<targetOut_, printedMessages_, afterMatchCount_, stopCalls>>
         ELSE /\ targetOut_'.writes = targetOut_.writes + 1
              /\ targetOut_'.flushes = targetOut_.flushes + 1
              /\ printedMessages_' = printedMessages_ + 1
              /\ lastRaw'.count = 0 => targetOut_'.data = targetOut_.data]_vars

C2_Witness ==
  /\ rawCalls = 1 /\ ~lastRaw.null /\ lastRaw.count = 0
  /\ targetOut_.writes = 1 /\ targetOut_.flushes = 1 /\ targetOut_.data = <<>>
  /\ printedMessages_ = 1

\* C3 (as claimed): the after-match counter never goes below zero, and a
\* countStats call made while it is 0 leaves it at 0.
C3_CounterStaysAtZero ==
  /\ [](afterMatchCount_ >= 0)
  /\ [][(nCalls' # nCalls /\ afterMatchCount_ = 0) => afterMatchCount_' = 0]_vars

\* C4: once the counter has been started at the configured count N, every one
\* of the next N countStats calls lowers it by one, so that it is 0 after the
\* N-th; with a configured count of 0 no countStats call changes it.
C4_CountsDownToZero ==
  /\ []((thrown = 0 /\ status = "running" /\ sinceStart \in 0..options_.numAfterMatch)
          => afterMatchCount_ = options_.numAfterMatch - sinceStart)
  /\ [][(nCalls' # nCalls /\ options_.numAfterMatch = 0)
          => afterMatchCount_' = afterMatchCount_]_vars

C4_Witness ==
  /\ options_.numAfterMatch > 1 /\ sinceStart = options_.numAfterMatch
  /\ afterMatchCount_ = 0 /\ thrown = 0 /\ status = "running"

\* C5 (as claimed): a printer configured with a bound and no stop callback
\* never prints or counts a message.
C5_RejectedAtConstruction ==
  (options_.maxMessages > 0 /\ ~options_.hasStopFn) =>
     printedMessages_ = 0 /\ targetOut_.writes = 0

\* C5 (amended): the constructor accepts a bound without a stop callback; the
\* printer counts every message, never signals stop, and fails only inside
\* countStats once the count has reached the bound: the assert aborts, or in an
\* NDEBUG build each such call throws std::bad_function_call.
C5_FailsAtBound ==
  (options_.maxMessages > 0 /\ ~options_.hasStopFn) =>
     /\ stopCalls = 0
     /\ printedMessages_ = nCalls
     /\ ~ndebug => /\ printedMessages_ <= options_.maxMessages
                   /\ status = "aborted" <=> printedMessages_ = options_.maxMessages
                   /\ thrown = 0
     /\ ndebug => /\ status = "running"
                  /\ thrown = IF printedMessages_ >= options_.maxMessages
                                THEN printedMessages_ - options_.maxMessages + 1
                                ELSE 0

C5_Witness ==
  /\ options_.maxMessages > 1 /\ ~options_.hasStopFn
  /\ printedMessages_ = 1 /\ targetOut_.writes = 1
  /\ status = "running" /\ thrown = 0

\* C9: every countStats call raises the printed-message count by one; with a
\* stop callback registered the callback is invoked in that call exactly when
\* maxMessages > 0 and the raised count is >= maxMessages (so again on every
\* later call), and the after-match counter changes in the same way whether or
\* not the callback was invoked.
C9_EveryCall ==
  [][nCalls' # nCalls =>
       /\ nCalls' = nCalls + 1
       /\ printedMessages_' = printedMessages_ + 1
       /\ options_.hasStopFn =>
            /\ stopCalls' = stopCalls +
                 (IF options_.maxMessages > 0 /\ printedMessages_' >= options_.maxMessages
                    THEN 1 ELSE 0)
            /\ afterMatchCount_' = afterMatchCount_ -
                 (IF options_.numAfterMatch > 0 THEN 1 ELSE 0)
       /\ (~options_.hasStopFn /\ ReturnedNormally) =>
            /\ stopCalls' = stopCalls
            /\ afterMatchCount_' = afterMatchCount_ -
                 (IF options_.numAfterMatch > 0 THEN 1 ELSE 0)]_vars

C9_Witness ==
  /\ options_.hasStopFn /\ options_.maxMessages > 0
  /\ printedMessages_ > options_.maxMessages
  /\ stopCalls = printedMessages_ - options_.maxMessages + 1
  /\ sinceStart = stopCalls /\ sinceStart >= 2
  /\ afterMatchCount_ = options_.numAfterMatch - sinceStart

\* ------------------------------------------------------------ endpoints
\* The state of the printer while a function is exercised on its own.
IdlePrinter ==
  /\ options_ = [maxMessages |-> 0, numAfterMatch |-> 0, hasStopFn |-> FALSE,
                 disableColor |-> FALSE]
  /\ ndebug = FALSE
  /\ printedMessages_ = 0 /\ afterMatchCount_ = 0
  /\ targetOut_ = [data |-> <<>>, writes |-> 0, flushes |-> 0, colorOutput |-> TRUE]
  /\ status = "running"
  /\ stopCalls = 0 /\ thrown = 0 /\ nCalls = 0 /\ sinceStart = -1
  /\ rawCalls = 0 /\ lastRaw = [null |-> TRUE, count |-> 0]

Digits == <<"1", "2", "3", "4", "5", "6", "7", "8", "9">>

\* MessageHeader::kAddressMaxSize and kUnixSocketPrefix ("US:").
kAddressMaxSize == 40
kUnixSocketPrefix == <<"U", "S", ":">>

\* A path of n characters.
PathOfLen(n) == [i \in 1..n |-> IF i = 1 THEN "/" ELSE "x"]

\* folly::SocketAddress: empty (AF_UNSPEC), an IP address and port, or a
\* unix-domain path.  folly::IPAddress 0 is the empty address, port 0 is unset.
EmptyAddress == [family |-> "AF_UNSPEC", ip |-> 0, port |-> 0, path |-> <<>>]
InetAddresses ==
  {[family |-> "AF_INET", ip |-> i, port |-> p, path |-> <<>>] :
     i \in 1..NumIPs, p \in 1..NumPorts}
UnixAddresses ==
  {[family |-> "AF_UNIX", ip |-> 0, port |-> 0, path |-> PathOfLen(n)] :
     n \in {2, kAddressMaxSize - Len(kUnixSocketPrefix) - 2,
            kAddressMaxSize - Len(kUnixSocketPrefix) - 1}}
Filters == [host: 0..NumIPs, port: 0..NumPorts]

\* address.empty()
Empty(address) == address.family = "AF_UNSPEC"

\* address.describe()
Describe(address) ==
  CASE address.family = "AF_INET" ->
         <<"i", "p", Digits[address.ip], ":", Digits[address.port]>>
    [] address.family = "AF_UNIX" -> address.path
    [] OTHER -> <<>>

\* matchIPAddress(expectedIp, address)
MatchIPAddress(expectedIp, address) ==
  ~Empty(address) /\ expectedIp = address.ip

\* matchPort(expectedPort, address)
MatchPort(expectedPort, address) ==
  ~Empty(address) /\ expectedPort = address.port

\* matchAddress(from, to), with the printer's filter_ as f.
MatchAddressFromOnly(f, a, b) ==
  IF f.host # 0 /\ ~MatchIPAddress(f.host, a)
    THEN FALSE
    ELSE IF f.port # 0 /\ ~MatchPort(f.port, a)
           THEN FALSE
           ELSE TRUE
MatchAddress(f, a, b) ==
  IF f.host # 0 /\ ~MatchIPAddress(f.host, a) /\ ~MatchIPAddress(f.host, b)
    THEN FALSE
    ELSE IF f.port # 0 /\ ~MatchPort(f.port, a) /\ ~MatchPort(f.port, b)
           THEN FALSE
           ELSE TRUE

\* describeAddress(address)
DescribeAddress(address) ==
  LET res == Describe(address)
  IN IF address.family = "AF_UNIX"
          /\ Len(res) >= kAddressMaxSize - Len(kUnixSocketPrefix) - 1
       THEN res \o <<".", ".", ".">>
       ELSE res

\* ---- the harness of matchAddress
InitMatchAddress ==
  /\ IdlePrinter
  /\ filter_ \in Filters
  /\ from \in {EmptyAddress} \cup InetAddresses
  /\ to \in {EmptyAddress} \cup InetAddresses
  /\ protocol = NoValue /\ op = NoValue /\ result = NoValue /\ key = NoValue
  /\ text = NoValue /\ pattern = NoValue /\ it = NoValue /\ matches = NoValue
  /\ ret = FALSE /\ pc = "call"

CallMatchAddress ==
  /\ pc = "call"
  /\ ret' = MatchAddress(filter_, from, to)
  /\ pc' = "done"
  /\ UNCHANGED <<printerVars, filter_, from, to, protocol, op, result, key, text,
                 pattern, it, matches>>

NextMatchAddress == CallMatchAddress

SpecMatchAddress == InitMatchAddress /\ [][NextMatchAddress]_vars

\* The host criterion, as the claim words it: unset, or some non-empty
\* endpoint of the pair has the expected IP.  Likewise the port criterion.
HostPasses(f, a, b) ==
  f.host # 0 => \E e \in {a, b} : e.family # "AF_UNSPEC" /\ e.ip = f.host
PortPasses(f, a, b) ==
  f.port # 0 => \E e \in {a, b} : e.family # "AF_UNSPEC" /\ e.port = f.port

\* The filters with one more criterion set than f.
Stricter(f) ==
  {g \in Filters : /\ g # f
                   /\ f.host # 0 => g.host = f.host
                   /\ f.port # 0 => g.port = f.port}

Protocols == {"mc_unknown_protocol", "mc_ascii_protocol", "mc_umbrella_protocol"}

\* mc_protocol_to_string(protocol)
McProtocolToString(p) ==
  CASE p = "mc_ascii_protocol" -> <<"a", "s", "c", "i", "i">>
    [] p = "mc_umbrella_protocol" -> <<"u", "m", "b", "r", "e", "l", "l", "a">>
    [] OTHER -> <<"u", "n", "k", "n", "o", "w", "n">>

Arrow == <<" ", "-", ">", " ">>

\* if (!from.empty() || !to.empty()) out.append(" -> ")
ArrowNeededBoth(a, b) == ~Empty(a) /\ ~Empty(b)
ArrowNeeded(a, b) == ~Empty(a) \/ ~Empty(b)

\* if ((!from.empty() || !to.empty()) && protocol != mc_unknown_protocol)
ProtocolNeeded(a, b, p) == (~Empty(a) \/ ~Empty(b)) /\ p # "mc_unknown_protocol"

\* serializeConnectionDetails(from, to, protocol)
SerializeConnectionDetails(a, b, p) ==
  LET out1 == IF ~Empty(a) THEN DescribeAddress(a) ELSE <<>>
      out2 == IF ArrowNeeded(a, b) THEN out1 \o Arrow ELSE out1
      out3 == IF ~Empty(b) THEN out2 \o DescribeAddress(b) ELSE out2
  IN IF ProtocolNeeded(a, b, p)
       THEN out3 \o <<" ", "(">> \o McProtocolToString(p) \o <<")">>
       ELSE out3

InitConn ==
  /\ IdlePrinter
  /\ from \in {EmptyAddress} \cup InetAddresses \cup UnixAddresses
  /\ to \in {EmptyAddress} \cup InetAddresses \cup UnixAddresses
  /\ protocol \in Protocols
  /\ filter_ = NoValue /\ op = NoValue /\ result = NoValue /\ key = NoValue
  /\ text = NoValue /\ pattern = NoValue /\ it = NoValue /\ matches = NoValue
  /\ ret = <<>> /\ pc = "call"

CallSerializeConnectionDetails ==
  /\ pc = "call"
  /\ ret' = SerializeConnectionDetails(from, to, protocol)
  /\ pc' = "done"
  /\ UNCHANGED <<printerVars, filter_, from, to, protocol, op, result, key, text,
                 pattern, it, matches>>

NextConn == CallSerializeConnectionDetails

SpecConn == InitConn /\ [][NextConn]_vars

\* Whether sub occurs in s.
Occurs(sub, s) ==
  \E i \in 1..(Len(s) - Len(sub) + 1) : SubSeq(s, i, i + Len(sub) - 1) = sub

\* " (<protocol>)" for a known protocol, nothing for the unknown one.
ProtocolSuffix(p) ==
  IF p = "mc_unknown_protocol" THEN <<>>
  ELSE <<" ", "(">> \o McProtocolToString(p) \o <<")">>

\* C6 (as claimed): with exactly one endpoint set the line is that endpoint's
\* description, followed by the protocol if known, with no arrow; with none it
\* is empty; with both and a known protocol it is "<from> -> <to> (<protocol>)".
C6_ArrowOnlyWithBoth ==
  pc = "done" =>
    /\ (Empty(from) /\ Empty(to)) => ret = <<>>
    /\ (~Empty(from) /\ Empty(to)) =>
         ret = DescribeAddress(from) \o ProtocolSuffix(protocol)
    /\ (Empty(from) /\ ~Empty(to)) =>
         ret = DescribeAddress(to) \o ProtocolSuffix(protocol)
    /\ (~Empty(from) /\ ~Empty(to)) =>
         ret = DescribeAddress(from) \o Arrow \o DescribeAddress(to)
                 \o ProtocolSuffix(protocol)

\* C6 (amended): the arrow is emitted whenever at least one endpoint is set:
\* with only from set the line is "<from> -> ", with only to set " -> <to>",
\* each followed by the protocol if known; with none it is empty whatever the
\* protocol; with both it is "<from> -> <to>" and the protocol if known.
C6_ArrowWithEither ==
  pc = "done" =>
    /\ (Empty(from) /\ Empty(to)) => ret = <<>>
    /\ (~Empty(from) /\ Empty(to)) =>
         ret = DescribeAddress(from) \o Arrow \o ProtocolSuffix(protocol)
    /\ (Empty(from) /\ ~Empty(to)) =>
         ret = Arrow \o DescribeAddress(to) \o ProtocolSuffix(protocol)
    /\ (~Empty(from) /\ ~Empty(to)) =>
         ret = DescribeAddress(from) \o Arrow \o DescribeAddress(to)
                 \o ProtocolSuffix(protocol)
    /\ Occurs(Arrow, ret) <=> (~Empty(from) \/ ~Empty(to))

C6_Witness ==
  /\ pc = "done" /\ ~Empty(from) /\ Empty(to) /\ protocol = "mc_ascii_protocol"
  /\ ret = DescribeAddress(from) \o Arrow \o <<" ", "(", "a", "s", "c", "i", "i", ")">>

\* ------------------------------------------------------------ message header
Ops == {"mc_op_unknown", "mc_op_get", "mc_op_set"}
Results == {"mc_res_unknown", "mc_res_found", "mc_res_notfound"}
KeyChars == {"k", " ", "\n", "\\"}

\* mc_op_to_string(op)
McOpToString(o) ==
  CASE o = "mc_op_get" -> <<"g", "e", "t">>
    [] o = "mc_op_set" -> <<"s", "e", "t">>
    [] OTHER -> <<"u", "n", "k", "n", "o", "w", "n">>

\* mc_res_to_string(result)
McResToString(r) ==
  CASE r = "mc_res_found" -> <<"f", "o", "u", "n", "d">>
    [] r = "mc_res_notfound" -> <<"n", "o", "t", "f", "o", "u", "n", "d">>
    [] OTHER -> <<"u", "n", "k", "n", "o", "w", "n">>

\* folly::backslashify(key): a backslash and the control characters are
\* written as escapes, every printable character as it is.
RECURSIVE Backslashify(_)
Backslashify(k) ==
  IF k = <<>> THEN <<>>
  ELSE (CASE Head(k) = "\\" -> <<"\\", "\\">>
          [] Head(k) = "\n" -> <<"\\", "n">>
          [] OTHER -> <<Head(k)>>) \o Backslashify(Tail(k))

\* if (out.size() > 0) out.push_back(' ')
SeparateAlways(out) == out \o <<" ">>
Separate(out) == IF Len(out) > 0 THEN out \o <<" ">> ELSE out

\* serializeMessageHeader(op, result, key)
SerializeMessageHeader(o, r, k) ==
  LET out1 == IF o # "mc_op_unknown" THEN McOpToString(o) ELSE <<>>
      out2 == IF r # "mc_res_unknown"
                THEN Separate(out1) \o McResToString(r) ELSE out1
  IN IF Len(k) # 0 THEN Separate(out2) \o Backslashify(k) ELSE out2

InitHeader ==
  /\ IdlePrinter
  /\ op \in Ops /\ result \in Results /\ key \in SeqsUpTo(KeyChars, MaxKeyLen)
  /\ filter_ = NoValue /\ from = NoValue /\ to = NoValue /\ protocol = NoValue
  /\ text = NoValue /\ pattern = NoValue /\ it = NoValue /\ matches = NoValue
  /\ ret = <<>> /\ pc = "call"

CallSerializeMessageHeader ==
  /\ pc = "call"
  /\ ret' = SerializeMessageHeader(op, result, key)
  /\ pc' = "done"
  /\ UNCHANGED <<printerVars, filter_, from, to, protocol, op, result, key, text,
                 pattern, it, matches>>

NextHeader == CallSerializeMessageHeader

SpecHeader == InitHeader /\ [][NextHeader]_vars

\* The parts that are present, in order.
PresentParts(o, r, k) ==
  (IF o # "mc_op_unknown" THEN <<McOpToString(o)>> ELSE <<>>)
  \o (IF r # "mc_res_unknown" THEN <<McResToString(r)>> ELSE <<>>)
  \o (IF k # <<>> THEN <<Backslashify(k)>> ELSE <<>>)

\* The parts joined by one space between neighbours.
RECURSIVE JoinBySpace(_)
JoinBySpace(parts) ==
  IF parts = <<>> THEN <<>>
  ELSE IF Len(parts) = 1 THEN parts[1]
  ELSE parts[1] \o <<" ">> \o JoinBySpace(Tail(parts))

Spaces(str) == Cardinality({i \in 1..Len(str) : str[i] = " "})

\* C8: the header is the present parts among operation name, result name and
\* escaped key, in that order, with exactly one space between neighbours: it
\* is empty when all three are absent, and apart from spaces of the key itself
\* it has no leading, trailing or doubled space.
C8_HeaderJoin ==
  pc = "done" =>
    LET parts == PresentParts(op, result, key)
    IN /\ ret = JoinBySpace(parts)
       /\ parts = <<>> => ret = <<>>
       /\ parts # <<>> => Spaces(ret) = Spaces(key) + Len(parts) - 1
       /\ (Spaces(key) = 0 /\ ret # <<>>) =>
            /\ ret[1] # " " /\ ret[Len(ret)] # " "
            /\ ~Occurs(<<" ", " ">>, ret)

C8_Witness ==
  /\ pc = "done" /\ op = "mc_op_unknown" /\ result = "mc_res_found"
  /\ key = <<"k", "\n">>
  /\ ret = <<"f", "o", "u", "n", "d", " ", "k", "\\", "n">>

\* ------------------------------------------------------------ pattern matcher
TextChars == {"a", "b"}
Texts == SeqsUpTo(TextChars, MaxTextLen)

\* A pattern is an ordered alternation ( x|y|... ) whose alternatives are
\* literals (the empty one included) or greedy repetitions c* of a character.
Alternatives ==
  {[kind |-> "lit", s |-> l] : l \in SeqsUpTo(TextChars, MaxAltLen)}
    \cup {[kind |-> "star", s |-> <<c>>] : c \in TextChars}
Patterns == UNION {[1..k -> Alternatives] : k \in 1..MaxAlts}

\* The number of consecutive characters c of t from the 0-based position pos.
RECURSIVE RunLength(_, _, _)
RunLength(t, c, pos) ==
  IF pos < Len(t) /\ t[pos + 1] = c THEN 1 + RunLength(t, c, pos + 1) ELSE 0

\* The length of alternative alt's match at position pos of t, or -1.  With
\* notNull (match_not_initial_null at the position the search starts from) an
\* empty match does not count.
AltMatchLen(alt, t, pos, notNull) ==
  LET n == IF alt.kind = "star" THEN RunLength(t, alt.s[1], pos)
           ELSE IF pos + Len(alt.s) <= Len(t)
                     /\ SubSeq(t, pos + 1, pos + Len(alt.s)) = alt.s
                  THEN Len(alt.s) ELSE -1
  IN IF n = 0 /\ notNull THEN -1 ELSE n

\* The first alternative of pat that matches at pos: its match length, or -1.
RECURSIVE FirstAlt(_, _, _, _, _)
FirstAlt(pat, i, t, pos, notNull) ==
  IF i > Len(pat) THEN -1
  ELSE IF AltMatchLen(pat[i], t, pos, notNull) >= 0
         THEN AltMatchLen(pat[i], t, pos, notNull)
         ELSE FirstAlt(pat, i + 1, t, pos, notNull)

\* boost::regex_search(start, text.end(), pattern, flags): the leftmost match
\* at or after start; notInitialNull forbids an empty match at start itself.
RECURSIVE RegexSearch(_, _, _, _, _)
RegexSearch(t, pat, start, pos, notInitialNull) ==
  IF pos > Len(t) THEN [atEnd |-> TRUE, first |-> 0, second |-> 0]
  ELSE LET n == FirstAlt(pat, 1, t, pos, notInitialNull /\ pos = start)
       IN IF n >= 0 THEN [atEnd |-> FALSE, first |-> pos, second |-> pos + n]
          ELSE RegexSearch(t, pat, start, pos + 1, notInitialNull)

\* boost::cregex_token_iterator it(text.begin(), text.end(), pattern)
IteratorBegin(t, pat) == RegexSearch(t, pat, 0, 0, FALSE)

\* ++it: the search restarts at the end of the previous match, and after an
\* empty match it may not return an empty match there again.
IteratorNextNoFlag(t, pat, cur) ==
  RegexSearch(t, pat, cur.second, cur.second, FALSE)
IteratorNext(t, pat, cur) ==
  RegexSearch(t, pat, cur.second, cur.second, cur.first = cur.second)

\* result.emplace_back(it->first - text.begin(), it->length())
SpanOf(cur) == <<cur.first, cur.second - cur.first>>

InitMatchAll ==
  /\ IdlePrinter
  /\ text \in Texts /\ pattern \in Patterns
  /\ filter_ = NoValue /\ from = NoValue /\ to = NoValue /\ protocol = NoValue
  /\ op = NoValue /\ result = NoValue /\ key = NoValue
  /\ it = [atEnd |-> TRUE, first |-> 0, second |-> 0]
  /\ matches = <<>> /\ ret = <<>> /\ pc = "begin"

\* The iterator is constructed on the text.
MatchAllBegin ==
  /\ pc = "begin"
  /\ it' = IteratorBegin(text, pattern)
  /\ pc' = "loop"
  /\ UNCHANGED <<printerVars, filter_, from, to, protocol, op, result, key, text,
                 pattern, matches, ret>>

\* One iteration of while (it != end).
MatchAllStep ==
  /\ pc = "loop" /\ ~it.atEnd
  /\ matches' = Append(matches, SpanOf(it))
  /\ it' = IteratorNext(text, pattern, it)
  /\ UNCHANGED <<printerVars, filter_, from, to, protocol, op, result, key, text,
                 pattern, ret, pc>>

\* return result
MatchAllReturn ==
  /\ pc = "loop" /\ it.atEnd
  /\ ret' = matches
  /\ pc' = "done"
  /\ UNCHANGED <<printerVars, filter_, from, to, protocol, op, result, key, text,
                 pattern, it, matches>>

NextMatchAll == MatchAllBegin \/ MatchAllStep \/ MatchAllReturn

\* matchAll runs to completion once called: nothing suspends it.
SpecMatchAll == InitMatchAll /\ [][NextMatchAll]_vars /\ WF_vars(NextMatchAll)

SpanEnd(sp) == sp[1] + sp[2]

\* Whether the pattern matches anywhere in the text.
HasOccurrence ==
  \E pos \in 0..Len(text) : \E i \in 1..Len(pattern) :
     AltMatchLen(pattern[i], text, pos, FALSE) >= 0

\* What holds of the spans collected so far.
SpansInOrder ==
  /\ \A i \in 1..Len(matches) :
       /\ matches[i][1] >= 0 /\ matches[i][2] >= 0
       /\ SpanEnd(matches[i]) <= Len(text)
       /\ \E j \in 1..Len(pattern) :
            AltMatchLen(pattern[j], text, matches[i][1], FALSE) = matches[i][2]
  /\ \A i \in 1..(Len(matches) - 1) :
       /\ matches[i + 1][1] >= SpanEnd(matches[i])
       /\ \/ matches[i + 1][1] > matches[i][1]
          \/ SpanEnd(matches[i + 1]) > SpanEnd(matches[i])
       /\ matches[i][2] = 0 =>
            (matches[i + 1][1] > SpanEnd(matches[i]) \/ matches[i + 1][2] > 0)

====
